---- MODULE Spec2Model ----
(***************************************************************************)
(* Model of the bulk object-storage transfer engine of packman:            *)
(* storages/cloudstorage/s3/client.py (class S3Client).                    *)
(*                                                                         *)
(* Strings (object keys, local paths) are sequences of code points, so     *)
(* that rstrip, lstrip, replace, slicing, os.path.join and the prefix test *)
(* of the provider are computed as the code computes them.  Local paths    *)
(* follow POSIX (os.sep = "/").  The bucket is the provider's ordered      *)
(* key space: a sequence of objects sorted by key.                         *)
(***************************************************************************)
EXTENDS Integers, Sequences, FiniteSets, TLC

VARIABLES
    bucket,             \* provider: objects [key, body], sorted by key
    over,               \* provider: keys a page may deliver beyond MaxKeys
    faults,             \* provider: calls it has failed with a ClientError
    files,              \* local filesystem: path -> content of regular files
    dirs,               \* local filesystem: set of directory paths
    pc,                 \* position of the calling thread
    op,                 \* the call in progress and its arguments
    calls_left,         \* calls the caller may still issue
    last,               \* outcome of the most recent finished call
    prev,               \* the call finished before the current one, if it
                        \* changed the store or the local tree
    conn,               \* outcome of S3Client(...): the object, or the exception
    written,            \* keys a write_text or upload call has stored so far
    requests,           \* provider calls issued by the call in progress
    keys,               \* list(): accumulated keys
    continuation_token, \* list(): <<>> (None) or <<token>>
    pages,              \* list(): provider list calls issued by this listing
    chunk_i,            \* delete_folder(): loop variable i
    deleted_count,      \* delete_folder(): running counter
    batches,            \* delete_folder(): bulk-delete calls issued
    manifest,           \* folder call: files_to_upload / keys with targets
    total,              \* folder call: len(manifest)
    seq_i,              \* folder call, sequential: items the loop has reached
    max_workers,        \* S3Client.max_workers
    futures,            \* folder call, parallel: state of each future
    stream,             \* folder call, parallel: as_completed's yield order
    consumed,           \* folder call, parallel: futures consumed by the loop
    completed,          \* folder call, parallel: the completed counter
    progress,           \* progress_callback invocations <<completed, total>>
    attempts,           \* item transfers started, in order of start
    pending_err,        \* folder call, parallel: exception leaving the with block
    observed            \* folder call, parallel: the futures and the progress
                        \* calls as they were when the exception was caught

envVars    == <<bucket, over, faults>>
localVars  == <<files, dirs>>
callVars   == <<pc, op, calls_left, conn, written, last, prev, conn, written>>
listVars   == <<keys, continuation_token, pages>>
deleteVars == <<chunk_i, deleted_count, batches>>
runVars    == <<manifest, total, seq_i, futures, stream, consumed, completed,
                progress, attempts, pending_err, observed>>
folderVars == <<max_workers, runVars>>
vars == <<envVars, localVars, callVars, requests, listVars, deleteVars, folderVars>>

----------------------------------------------------------------------------
(* Bounds of the model.                                                    *)

MaxCalls == 2       \* calls issued in one behaviour of SpecList
MaxPages == 4       \* provider list calls issued by one listing
MaxSmall == 3       \* small stores hold 0..MaxSmall keys under the prefix
MaxExtra == 500     \* the largest store holds 2 * cap + MaxExtra keys
MaxOver  == 1       \* keys an over-delivering provider adds to a page
MaxFaults == 2      \* provider calls that fail in one behaviour
MaxFiles == 3       \* files a local tree holds
MaxSteps == 3       \* calls issued in one behaviour of SpecObject
MaxVanish == 1      \* files removed under one running upload_folder

----------------------------------------------------------------------------
(* Program constants.                                                      *)

Slash == 47             \* '/'
OsSep == 47             \* os.sep (POSIX)
ListPageCap == 1000     \* min(remaining, 1000)
DeleteBatchCap == 1000  \* range(0, len(keys), 1000), keys[i:i + 1000]
DefaultMaxWorkers == 5  \* max_workers: int = 5

Min(a, b) == IF a <= b THEN a ELSE b

----------------------------------------------------------------------------
(* Strings.                                                                *)

\* s.startswith(p)
StartsWith(s, p) == Len(s) >= Len(p) /\ SubSeq(s, 1, Len(p)) = p

\* a < b in code-point order (the order in which the provider lists keys),
\* given that a and b agree before position i
RECURSIVE StrLessFrom(_, _, _)
StrLessFrom(a, b, i) ==
    IF i > Len(a) THEN i <= Len(b)
    ELSE IF i > Len(b) THEN FALSE
    ELSE IF a[i] = b[i] THEN StrLessFrom(a, b, i + 1)
    ELSE a[i] < b[i]

StrLess(a, b) == StrLessFrom(a, b, 1)

\* s.rstrip('/')
RECURSIVE RStrip(_)
RStrip(s) ==
    IF s # <<>> /\ s[Len(s)] = Slash THEN RStrip(SubSeq(s, 1, Len(s) - 1)) ELSE s

\* s.lstrip("/")
RECURSIVE LStrip(_)
LStrip(s) ==
    IF s # <<>> /\ s[1] = Slash THEN LStrip(Tail(s)) ELSE s

\* s.replace(old, new) for single characters
Replace(s, old, new) == [i \in 1..Len(s) |-> IF s[i] = old THEN new ELSE s[i]]

\* s[n:]
SliceFrom(s, n) == SubSeq(s, n + 1, Len(s))

\* s[i:j] for 0 <= i <= j
Slice(s, i, j) == SubSeq(s, i + 1, Min(j, Len(s)))

----------------------------------------------------------------------------
(* Local paths (os.path on POSIX) and the local filesystem.                *)

EndsWithSep(p) == p # <<>> /\ p[Len(p)] = OsSep

\* os.path.join(a, b)
PathJoin(a, b) ==
    IF b # <<>> /\ b[1] = OsSep THEN b
    ELSE IF a = <<>> \/ EndsWithSep(a) THEN a \o b
    ELSE a \o <<OsSep>> \o b

\* the position of the last separator of p, 0 when there is none
LastSep(p) ==
    LET at == {i \in 1..Len(p) : p[i] = OsSep}
    IN  IF at = {} THEN 0 ELSE CHOOSE i \in at : \A j \in at : j <= i

\* head.rstrip(sep)
RECURSIVE RStripSep(_)
RStripSep(s) ==
    IF EndsWithSep(s) THEN RStripSep(SubSeq(s, 1, Len(s) - 1)) ELSE s

\* os.path.dirname(p): everything up to the last separator, without the
\* trailing separators unless it consists of separators only
DirName(p) ==
    LET head == SubSeq(p, 1, LastSep(p))
    IN  IF \E i \in 1..Len(head) : head[i] # OsSep THEN RStripSep(head) ELSE head

\* the components of p: the non-empty parts between separators
RECURSIVE Components(_)
Components(p) ==
    IF p = <<>> THEN <<>>
    ELSE IF p[1] = OsSep THEN Components(Tail(p))
    ELSE LET seps == {i \in 1..Len(p) : p[i] = OsSep}
             cut  == IF seps = {} THEN Len(p) + 1
                     ELSE CHOOSE i \in seps : \A j \in seps : i <= j
         IN  <<SubSeq(p, 1, cut - 1)>> \o Components(SubSeq(p, cut + 1, Len(p)))

\* sep.join(parts)
RECURSIVE JoinSep(_)
JoinSep(parts) ==
    IF parts = <<>> THEN <<>>
    ELSE IF Len(parts) = 1 THEN parts[1]
    ELSE parts[1] \o <<OsSep>> \o JoinSep(Tail(parts))

\* the length of the longest common prefix of two component lists
RECURSIVE CommonLen(_, _)
CommonLen(a, b) ==
    IF a = <<>> \/ b = <<>> \/ a[1] # b[1] THEN 0
    ELSE 1 + CommonLen(Tail(a), Tail(b))

\* os.path.relpath(path, start), both taken from the same working directory:
\* one ".." for each component of start outside the common prefix, then the
\* rest of path; "." when nothing is left
RelPath(path, start) ==
    LET pl  == Components(path)
        sl  == Components(start)
        i   == CommonLen(sl, pl)
        rel == [j \in 1..(Len(sl) - i) |-> <<46, 46>>] \o SubSeq(pl, i + 1, Len(pl))
    IN  IF rel = <<>> THEN <<46>> ELSE JoinSep(rel)

\* d and the directories above it, as os.makedirs creates them
DirChain(d) ==
    {SubSeq(d, 1, i) : i \in {j \in 1..Len(d) :
                                /\ d[j] # OsSep
                                /\ (j = Len(d) \/ d[j + 1] = OsSep)}}

\* os.path.isdir(p)
IsDir(ds, p) == RStripSep(p) \in ds

\* os.path.exists(p)
PathExists(fs, ds, p) == p \in DOMAIN fs \/ IsDir(ds, p)

\* os.makedirs(d, exist_ok=True) succeeds: d is not empty and neither d nor
\* a directory above it is a regular file
CanMakeDirs(fs, d) == d # <<>> /\ DirChain(d) \cap DOMAIN fs = {}

\* the local file p can be written: it does not name a directory
CanWrite(ds, p) == ~EndsWithSep(p) /\ p \notin ds

\* the regular files below directory d
FilesUnder(fs, d) == {p \in DOMAIN fs : StartsWith(p, RStripSep(d) \o <<OsSep>>)}

\* the orders in which os.walk(d) can yield the files below d: top-down,
\* the files of one directory together and before those of the
\* directories below it; the order inside a directory is the filesystem's
WalkOrders(fs, d) ==
    LET S == FilesUnder(fs, d)
        n == Cardinality(S)
    IN  {w \in [1..n -> S] :
           /\ \A i, j \in 1..n : w[i] = w[j] => i = j
           /\ \A i, j \in 1..n :
                  (i < j /\ DirName(w[i]) # DirName(w[j])) =>
                      ~StartsWith(DirName(w[i]), DirName(w[j]) \o <<OsSep>>)
           /\ \A i, j, k \in 1..n :
                  (i < j /\ j < k /\ DirName(w[i]) = DirName(w[k])) =>
                      DirName(w[j]) = DirName(w[i])}

----------------------------------------------------------------------------
(* The provider (the remote capability behind self.s3).                    *)

BucketKeys(b) == [i \in 1..Len(b) |-> b[i].key]

HasKey(b, k) == \E i \in 1..Len(b) : b[i].key = k

BodyOf(b, k) == b[CHOOSE i \in 1..Len(b) : b[i].key = k].body

\* put_object / upload_file: create or overwrite the object, keeping key order
PutObject(b, k, body) ==
    SelectSeq(b, LAMBDA o : StrLess(o.key, k))
        \o <<[key |-> k, body |-> body]>>
        \o SelectSeq(b, LAMBDA o : StrLess(k, o.key))

\* delete_objects(Delete={'Objects': [{'Key': k} for k in batch]})
DeleteObjects(b, batch) ==
    LET gone == {batch[i] : i \in 1..Len(batch)}
    IN  SelectSeq(b, LAMBDA o : o.key \notin gone)

\* the most keys one list_objects_v2 call is asked for: MaxKeys, which
\* defaults to the provider's hard cap and cannot exceed it
PageLimit(params) ==
    IF params.MaxKeys = <<>> THEN ListPageCap
    ELSE Min(params.MaxKeys[1], ListPageCap)

\* the numbers of keys a provider may choose to deliver on a page: the
\* limit, or fewer
PageSizes(params) ==
    {n \in {1, ListPageCap - 1} : n < PageLimit(params)} \cup {PageLimit(params)}

\* list_objects_v2(**params): the keys under Prefix after the continuation
\* token, in key order.  The provider delivers n of them (as many as are
\* left when that is fewer), and ov more when n is the limit.
list_objects_v2(b, params, n, ov) ==
    LET matching == SelectSeq(BucketKeys(b), LAMBDA k : StartsWith(k, params.Prefix))
        rest     == IF params.ContinuationToken = <<>> THEN matching
                    ELSE SelectSeq(matching,
                             LAMBDA k : StrLess(params.ContinuationToken[1], k))
        want     == IF n >= PageLimit(params) THEN n + ov ELSE n
        got      == SubSeq(rest, 1, Min(want, Len(rest)))
        more     == Len(got) < Len(rest)
    IN  [Contents |-> got,
         IsTruncated |-> more,
         NextContinuationToken |-> IF more THEN <<got[Len(got)]>> ELSE <<>>]

----------------------------------------------------------------------------
(* Calls: start and finish.                                                *)

NoOp == [name |-> "none", remote_prefix |-> <<>>, max_keys |-> <<>>,
         local_folder |-> <<>>, parallel |-> FALSE, remote_path |-> <<>>,
         local_path |-> <<>>, ignore_missing |-> FALSE, pre |-> <<>>]

\* a call as the caller issues it; pre records the bucket's keys at that moment
Call(name, b) == [NoOp EXCEPT !.name = name, !.pre = BucketKeys(b)]

NoResult == [name |-> "none", status |-> "none", value |-> 0, err |-> "none",
             msg |-> "", path |-> <<>>, cause |-> "none"]

Returned(name, v) ==
    [NoResult EXCEPT !.name = name, !.status = "ok", !.value = v]

\* exception e with message m, which names path p.  An exception this code
\* does not raise itself (one of the operating system's) has no message of
\* its own here: m = "".
Raised(name, e, m, p) ==
    [NoResult EXCEPT !.name = name, !.status = "raised", !.err = e, !.msg = m,
                     !.path = p]

\* raise IOError(f"{m} {p}: {e}"): a new IOError whose message names path p
\* and quotes the exception e it was raised for
Wrapped(name, m, p, e) ==
    [Raised(name, "IOError", m, p) EXCEPT !.cause = e]

\* no exception has been caught in the loop over as_completed
NoObserved == [futures |-> <<>>, progress |-> <<>>]

NoPrev == [name |-> "none", remote_prefix |-> <<>>, local_folder |-> <<>>,
           parallel |-> FALSE, remote_path |-> <<>>, ignore_missing |-> FALSE,
           fresh |-> FALSE, value |-> 0]

\* the calls that write to the store or delete from it
Mutators == {"delete_folder", "upload_folder", "write_text", "upload", "delete"}

\* what the next call remembers of call o that ended with outcome r: a
\* call that returned and may have changed the store, with its arguments,
\* and whether the bucket was empty when it was issued
Summary(r, o) ==
    IF r.status = "ok" /\ r.name \in Mutators
    THEN [name |-> r.name, remote_prefix |-> o.remote_prefix,
          local_folder |-> o.local_folder, parallel |-> o.parallel,
          remote_path |-> o.remote_path, ignore_missing |-> o.ignore_missing,
          fresh |-> o.pre = <<>>, value |-> r.value]
    ELSE NoPrev

\* S3Client(...) has not been called
NoConn == [status |-> "none", err |-> "none", msg |-> "", made |-> FALSE,
           probed |-> FALSE]

\* S3Client(...) returned the object: boto3.client(...) made the provider
\* client and head_bucket succeeded
Connected == [NoConn EXCEPT !.status = "ok", !.made = TRUE, !.probed = TRUE]

\* the caller issues a call
Begin ==
    /\ pc = "idle"
    /\ conn.status = "ok"
    /\ calls_left > 0
    /\ calls_left' = calls_left - 1
    /\ prev' = Summary(last, op)
    /\ UNCHANGED conn

\* control goes back to the caller with outcome r
Finish(r) ==
    /\ pc' = "idle"
    /\ last' = r

\* no call has been issued yet
IdleCall ==
    /\ pc = "idle"
    /\ written = {}
    /\ requests = 0
    /\ op = NoOp
    /\ last = NoResult
    /\ prev = NoPrev
    /\ keys = <<>>
    /\ continuation_token = <<>>
    /\ pages = 0
    /\ chunk_i = 0
    /\ deleted_count = 0
    /\ batches = <<>>
    /\ manifest = <<>>
    /\ total = 0
    /\ seq_i = 0
    /\ futures = <<>>
    /\ stream = <<>>
    /\ consumed = 0
    /\ completed = 0
    /\ progress = <<>>
    /\ attempts = <<>>
    /\ pending_err = NoResult
    /\ observed = NoObserved

\* the provider fails one more call with a ClientError
Fault ==
    /\ faults < MaxFaults
    /\ faults' = faults + 1

----------------------------------------------------------------------------
(* S3Client(bucket, aws_access_key_id, aws_secret_access_key, region)      *)

\* what boto3.client(...) or head_bucket(...) can end with: no exception,
\* botocore's NoCredentialsError, a ClientError with code 404 or with
\* another code, or an exception of neither class
NoExc == [type |-> "none", code |-> ""]

ProviderExcs ==
    {[type |-> "NoCredentialsError", code |-> ""],
     [type |-> "ClientError", code |-> "404"],
     [type |-> "ClientError", code |-> "403"],
     [type |-> "EndpointConnectionError", code |-> ""]}

\* variant: a ClientError other than 404 is passed over
ConstructResultLenient(stage, e) ==
    IF e = NoExc \/ (e.type = "ClientError" /\ e.code # "404")
    THEN [NoConn EXCEPT !.status = "ok", !.made = TRUE, !.probed = (e = NoExc)]
    ELSE [NoConn EXCEPT !.status = "raised", !.err = "ValueError",
                        !.made = (stage = "probe")]

\* the try block of __init__ ends with e, raised by boto3.client
\* (stage "client") or by head_bucket (stage "probe"):
\*   except NoCredentialsError: raise ValueError("Invalid AWS credentials")
\*   except ClientError: 404 -> raise ValueError("Bucket ... does not exist");
\*                       otherwise raise
\* and any other exception leaves __init__ as it is
ConstructResult(stage, e) ==
    LET failed == [NoConn EXCEPT !.status = "raised", !.made = (stage = "probe")]
    IN  IF e = NoExc THEN Connected
        ELSE IF e.type = "NoCredentialsError"
        THEN [failed EXCEPT !.err = "ValueError", !.msg = "Invalid AWS credentials"]
        ELSE IF e.type = "ClientError" /\ e.code = "404"
        THEN [failed EXCEPT !.err = "ValueError", !.msg = "Bucket does not exist"]
        ELSE [failed EXCEPT !.err = e.type]

\* the caller constructs the client
Construct ==
    /\ pc = "idle"
    /\ conn.status = "none"
    /\ \E stage \in {"client", "probe"}, e \in ProviderExcs \cup {NoExc} :
         /\ stage = "client" => e # NoExc
         /\ conn' = ConstructResult(stage, e)
         /\ requests' = IF stage = "probe" THEN 1 ELSE 0
    /\ UNCHANGED <<envVars, localVars, pc, op, calls_left, last, prev, written,
                   listVars, deleteVars, folderVars>>

----------------------------------------------------------------------------
(* list(prefix, max_keys): the pagination loop.                            *)

\* if max_keys is not None: remaining = max_keys - len(keys);
\* if remaining <= 0: break
ListBreak(mk, ks) == mk # <<>> /\ mk[1] - Len(ks) <= 0

\* variant: every page is asked for max_keys keys, whatever is there already
ListParamsWhole(prefix, mk, ks, token) ==
    [Prefix |-> prefix,
     ContinuationToken |-> token,
     MaxKeys |-> IF mk = <<>> THEN <<>> ELSE <<Min(mk[1], ListPageCap)>>]

\* params of one iteration; MaxKeys is passed only when max_keys is given
ListParams(prefix, mk, ks, token) ==
    [Prefix |-> prefix,
     ContinuationToken |-> token,
     MaxKeys |-> IF mk = <<>> THEN <<>>
                 ELSE <<Min(mk[1] - Len(ks), ListPageCap)>>]

\* if 'Contents' in resp: keys.extend(obj['Key'] for obj in resp['Contents'])
ListExtend(ks, resp) == ks \o resp.Contents

\* if not resp.get('IsTruncated', False): break
ListStop(resp) == ~resp.IsTruncated

\* variant: the token of the response is dropped
ListNextTokenDropped(resp) == <<>>

\* continuation_token = resp.get('NextContinuationToken')
ListNextToken(resp) == resp.NextContinuationToken

BeginListing ==
    /\ keys' = <<>>
    /\ continuation_token' = <<>>
    /\ pages' = 0
    /\ pc' = "list"

\* the caller calls list(prefix, max_keys)
StartList(prefixes, caps) ==
    /\ Begin
    /\ \E p \in prefixes, mk \in caps :
           op' = [Call("list", bucket) EXCEPT !.remote_prefix = p, !.max_keys = mk]
    /\ last' = NoResult
    /\ BeginListing
    /\ requests' = 0
    /\ UNCHANGED <<envVars, localVars, written, deleteVars, folderVars>>

\* one iteration of the while loop that issues a provider call
ListPage ==
    /\ pc = "list"
    /\ ~ListBreak(op.max_keys, keys)
    /\ pages < MaxPages
    /\ LET params == ListParams(op.remote_prefix, op.max_keys, keys,
                                continuation_token)
       IN  \E n \in PageSizes(params) :
         LET resp == list_objects_v2(bucket, params, n, over)
         IN  /\ keys' = ListExtend(keys, resp)
             /\ pages' = pages + 1
             /\ IF ListStop(resp)
                THEN pc' = "listed" /\ UNCHANGED continuation_token
                ELSE pc' = "list" /\ continuation_token' = ListNextToken(resp)
    /\ requests' = requests + 1
    /\ UNCHANGED <<envVars, localVars, op, calls_left, conn, written, last, prev,
                   deleteVars, folderVars>>

\* the response of a provider that flags a page as truncated and leaves
\* the token out
Tokenless(resp) == [resp EXCEPT !.NextContinuationToken = <<>>]

\* one iteration of the while loop against that provider, on a page that
\* is truncated: resp.get('NextContinuationToken') is None
ListPageTokenless ==
    /\ pc = "list"
    /\ ~ListBreak(op.max_keys, keys)
    /\ pages < MaxPages
    /\ LET params == ListParams(op.remote_prefix, op.max_keys, keys,
                                continuation_token)
       IN  \E n \in PageSizes(params) :
         LET resp == Tokenless(list_objects_v2(bucket, params, n, over))
         IN  /\ resp.IsTruncated
             /\ keys' = ListExtend(keys, resp)
             /\ pages' = pages + 1
             /\ IF ListStop(resp)
                THEN pc' = "listed" /\ UNCHANGED continuation_token
                ELSE pc' = "list" /\ continuation_token' = ListNextToken(resp)
    /\ requests' = requests + 1
    /\ UNCHANGED <<envVars, localVars, op, calls_left, conn, written, last, prev,
                   deleteVars, folderVars>>

\* the iteration that leaves the loop because max_keys keys are there
ListBreakOut ==
    /\ pc = "list"
    /\ ListBreak(op.max_keys, keys)
    /\ pc' = "listed"
    /\ UNCHANGED <<envVars, requests, localVars, op, calls_left, conn, written, last, prev, listVars,
                   deleteVars, folderVars>>

\* except ClientError as e: raise IOError(f"Failed to list objects: {e}")
ListFail ==
    /\ pc = "list"
    /\ ~ListBreak(op.max_keys, keys)
    /\ pages < MaxPages
    /\ Fault
    /\ pages' = pages + 1
    /\ Finish(Wrapped(op.name, "Failed to list objects", <<>>, "ClientError"))
    /\ requests' = requests + 1
    /\ UNCHANGED <<bucket, over, localVars, op, calls_left, conn, written, prev, keys,
                   continuation_token, deleteVars, folderVars>>

\* return keys
ListReturn ==
    /\ pc = "listed"
    /\ op.name = "list"
    /\ Finish(Returned("list", keys))
    /\ UNCHANGED <<envVars, requests, localVars, op, calls_left, conn, written, prev, listVars, deleteVars,
                   folderVars>>

----------------------------------------------------------------------------
(* exists(remote_path)                                                     *)

\* head_object(Bucket, Key) when the provider does not fail: the object's
\* metadata, or a ClientError with code 404
HeadObject(b, k) == IF HasKey(b, k) THEN "ok" ELSE "404"

\* variant: every ClientError is raised as IOError
ExistsResultStrict(k, resp) ==
    IF resp = "ok" THEN Returned("exists", TRUE)
    ELSE Wrapped("exists", "Failed to check existence of", k, "ClientError")

\* return True; except ClientError: code 404 -> return False; otherwise
\* raise IOError(f"Failed to check existence of {remote_path}: {e}")
ExistsResult(k, resp) ==
    IF resp = "ok" THEN Returned("exists", TRUE)
    ELSE IF resp = "404" THEN Returned("exists", FALSE)
    ELSE Wrapped("exists", "Failed to check existence of", k, "ClientError")

\* what exists(k) returns when the provider does not fail
Exists(b, k) == ExistsResult(k, HeadObject(b, k)).value

\* the second disjunct: head_object fails with a ClientError other than 404
CallExists(probes) ==
    /\ Begin
    /\ \E k \in probes :
         /\ op' = [Call("exists", bucket) EXCEPT !.remote_path = k]
         /\ \/ Finish(ExistsResult(k, HeadObject(bucket, k))) /\ UNCHANGED faults
            \/ Finish(ExistsResult(k, "403")) /\ Fault
    /\ requests' = 1
    /\ UNCHANGED <<bucket, over, localVars, written, listVars, deleteVars, folderVars>>

----------------------------------------------------------------------------
(* delete_folder(remote_prefix)                                            *)

\* variant: a batch one key short
BatchShort(ks, i) == Slice(ks, i, i + DeleteBatchCap - 1)

\* batch = keys[i:i + 1000]
Batch(ks, i) == Slice(ks, i, i + DeleteBatchCap)

\* variant: a step one short of the batch cap
NextChunkOverlapping(i) == i + DeleteBatchCap - 1

\* for i in range(0, len(keys), 1000): the next value of i
NextChunk(i) == i + DeleteBatchCap

StartDeleteFolder(prefixes) ==
    /\ Begin
    /\ \E p \in prefixes :
           op' = [Call("delete_folder", bucket) EXCEPT !.remote_prefix = p]
    /\ last' = NoResult
    /\ BeginListing
    /\ chunk_i' = 0
    /\ deleted_count' = 0
    /\ batches' = <<>>
    /\ requests' = 0
    /\ UNCHANGED <<envVars, localVars, written, folderVars>>

\* variant: the chunk loop is entered whatever the listing holds
DeleteAfterListUnguarded ==
    /\ pc = "listed"
    /\ op.name = "delete_folder"
    /\ pc' = "delete"
    /\ UNCHANGED <<envVars, requests, localVars, op, calls_left, conn, written, last, prev, listVars,
                   deleteVars, folderVars>>

\* keys = self.list(remote_prefix); if not keys: return 0
DeleteAfterList ==
    /\ pc = "listed"
    /\ op.name = "delete_folder"
    /\ IF keys = <<>>
       THEN Finish(Returned("delete_folder", 0))
       ELSE pc' = "delete" /\ UNCHANGED last
    /\ UNCHANGED <<envVars, requests, localVars, op, calls_left, conn, written, prev, listVars, deleteVars,
                   folderVars>>

\* one iteration of the chunk loop whose delete_objects call succeeds
DeleteChunk ==
    /\ pc = "delete"
    /\ LET batch == Batch(keys, chunk_i)
       IN  /\ bucket' = DeleteObjects(bucket, batch)
           /\ batches' = Append(batches, [keys |-> batch, ok |-> TRUE])
           /\ deleted_count' = deleted_count + Len(batch)
           /\ chunk_i' = NextChunk(chunk_i)
           /\ IF NextChunk(chunk_i) >= Len(keys)
              THEN Finish(Returned("delete_folder", deleted_count + Len(batch)))
              ELSE pc' = "delete" /\ UNCHANGED last
    /\ requests' = requests + 1
    /\ UNCHANGED <<over, faults, localVars, op, calls_left, conn, written, prev,
                   listVars, folderVars>>

\* variant: a failed chunk is passed over and the loop goes on
DeleteChunkFailPassed ==
    /\ pc = "delete"
    /\ Fault
    /\ batches' = Append(batches, [keys |-> Batch(keys, chunk_i), ok |-> FALSE])
    /\ chunk_i' = NextChunk(chunk_i)
    /\ IF NextChunk(chunk_i) >= Len(keys)
       THEN Finish(Returned("delete_folder", deleted_count))
       ELSE pc' = "delete" /\ UNCHANGED last
    /\ requests' = requests + 1
    /\ UNCHANGED <<bucket, over, localVars, op, calls_left, conn, written, prev,
                   listVars, deleted_count, folderVars>>

\* except ClientError as e: raise IOError(f"Failed to delete objects: {e}")
DeleteChunkFail ==
    /\ pc = "delete"
    /\ Fault
    /\ batches' = Append(batches, [keys |-> Batch(keys, chunk_i), ok |-> FALSE])
    /\ Finish(Wrapped("delete_folder", "Failed to delete objects", <<>>,
                      "ClientError"))
    /\ requests' = requests + 1
    /\ UNCHANGED <<bucket, over, localVars, op, calls_left, conn, written, prev,
                   listVars, chunk_i, deleted_count, folderVars>>

----------------------------------------------------------------------------
(* upload(local_path, remote_path) and download(remote_path, local_path)   *)
(* as one item of a folder call.  An item is [local, remote]; the result   *)
(* is the exception raised ("ok": none) and the bucket and local           *)
(* filesystem the transfer leaves.  fault: the provider call fails with a  *)
(* ClientError that is not a 404.                                          *)

\* the outcome of one transfer; net: the provider was called
Outcome(e, m, c, net, b, fs, ds) ==
    [err |-> e, msg |-> m, cause |-> c, net |-> net, bucket |-> b, files |-> fs,
     dirs |-> ds]

\* variant: no directory is created
MakeDirsNone(ds, d) == ds

\* os.makedirs(d, exist_ok=True)
MakeDirs(ds, d) == ds \cup DirChain(d)

Upload(it, b, fs, ds, fault) ==
    IF ~PathExists(fs, ds, it.local)
    THEN Outcome("FileNotFoundError", "Local file not found", "none", FALSE,
                 b, fs, ds)
    ELSE IF it.local \notin DOMAIN fs
    THEN Outcome("IsADirectoryError", "", "none", FALSE, b, fs, ds)
    ELSE IF fault
    THEN Outcome("IOError", "Failed to upload", "ClientError", TRUE, b, fs, ds)
    ELSE Outcome("ok", "", "none", TRUE, PutObject(b, it.remote, fs[it.local]),
                 fs, ds)

Download(it, b, fs, ds, fault) ==
    LET d   == DirName(it.local)
        ds2 == MakeDirs(ds, d)
    IN  IF ~CanMakeDirs(fs, d)
        THEN Outcome("FileExistsError", "", "none", FALSE, b, fs, ds)
        ELSE IF fault
        THEN Outcome("IOError", "Failed to download", "ClientError", TRUE, b, fs, ds2)
        ELSE IF ~HasKey(b, it.remote)
        THEN Outcome("FileNotFoundError", "Remote file not found", "ClientError",
                     TRUE, b, fs, ds2)
        ELSE IF ~CanWrite(ds2, it.local)
        THEN Outcome("IsADirectoryError", "", "none", TRUE, b, fs, ds2)
        ELSE Outcome("ok", "", "none", TRUE, b,
                     (it.local :> BodyOf(b, it.remote)) @@ fs, ds2)

Transfer(o, it, b, fs, ds, fault) ==
    IF o.name = "upload_folder" THEN Upload(it, b, fs, ds, fault)
    ELSE Download(it, b, fs, ds, fault)

\* variant: the remote key is named for uploads too
ItemPathRemote(o, it) == it.remote

\* the path the folder call names when the item fails: local_path of an
\* upload, key of a download
ItemPath(o, it) == IF o.name = "upload_folder" THEN it.local ELSE it.remote

----------------------------------------------------------------------------
(* write_text, upload and delete as calls of their own.                    *)

\* write_text(remote_path, text): put_object, or
\* except ClientError as e: raise IOError(f"Failed to write {remote_path}: {e}")
CallWriteText(paths, texts) ==
    /\ Begin
    /\ \E k \in paths, t \in texts :
         /\ op' = [Call("write_text", bucket) EXCEPT !.remote_path = k]
         /\ \/ /\ bucket' = PutObject(bucket, k, t)
               /\ written' = written \cup {k}
               /\ Finish(Returned("write_text", "None"))
               /\ UNCHANGED faults
            \/ /\ Fault
               /\ Finish(Wrapped("write_text", "Failed to write", k, "ClientError"))
               /\ UNCHANGED <<bucket, written>>
    /\ requests' = 1
    /\ UNCHANGED <<over, localVars, listVars, deleteVars, folderVars>>

\* upload(local_path, remote_path)
CallUpload(locals, paths) ==
    /\ Begin
    /\ \E lp \in locals, k \in paths, fault \in BOOLEAN :
         LET r == Upload([local |-> lp, remote |-> k], bucket, files, dirs, fault)
         IN  /\ op' = [Call("upload", bucket) EXCEPT
                           !.local_path = lp, !.remote_path = k]
             /\ IF fault THEN r.net /\ Fault ELSE UNCHANGED faults
             /\ bucket' = r.bucket
             /\ written' = IF r.err = "ok" THEN written \cup {k} ELSE written
             /\ requests' = IF r.net THEN 1 ELSE 0
             /\ IF r.err = "ok"
                THEN Finish(Returned("upload", "None"))
                ELSE Finish([Raised("upload", r.err, r.msg, lp) EXCEPT
                                !.cause = r.cause])
    /\ UNCHANGED <<over, localVars, listVars, deleteVars, folderVars>>

\* the ClientErrors delete_object may answer with: one that reports the key
\* as missing (by a provider that tells), and one for any other reason
MissingKey == "ClientError: NoSuchKey"
OtherError == "ClientError"

\* variant: ignore_missing forgives the missing key and nothing else
DeleteFailedMissingOnly(k, ignore_missing, e) ==
    IF ignore_missing /\ e = MissingKey
    THEN [Returned("delete", "None") EXCEPT !.cause = e]
    ELSE Wrapped("delete", "Failed to delete", k, e)

\* except ClientError as e:
\*     if not ignore_missing: raise IOError(f"Failed to delete ...: {e}")
DeleteFailed(k, ignore_missing, e) ==
    IF ~ignore_missing THEN Wrapped("delete", "Failed to delete", k, e)
    ELSE [Returned("delete", "None") EXCEPT !.cause = e]

\* delete(remote_path, ignore_missing): delete_object removes the key; for
\* an absent key the provider succeeds as well or reports it as missing
CallDelete(paths) ==
    /\ Begin
    /\ \E k \in paths, im \in BOOLEAN :
         /\ op' = [Call("delete", bucket) EXCEPT
                       !.remote_path = k, !.ignore_missing = im]
         /\ \/ /\ bucket' = DeleteObjects(bucket, <<k>>)
               /\ Finish(Returned("delete", "None"))
               /\ UNCHANGED faults
            \/ /\ ~HasKey(bucket, k)
               /\ Finish(DeleteFailed(k, im, MissingKey))
               /\ UNCHANGED <<bucket, faults>>
            \/ /\ Fault
               /\ Finish(DeleteFailed(k, im, OtherError))
               /\ UNCHANGED bucket
    /\ requests' = 1
    /\ UNCHANGED <<over, localVars, written, listVars, deleteVars, folderVars>>

----------------------------------------------------------------------------
(* upload_folder and download_folder: the manifest.                        *)

\* f"{remote_prefix.rstrip('/')}/{rel_path.replace(os.sep, '/')}"
RemoteKey(remote_prefix, rel_path) ==
    RStrip(remote_prefix) \o <<Slash>> \o Replace(rel_path, OsSep, Slash)

\* files_to_upload for the walk order w
UploadManifest(w, local_folder, remote_prefix) ==
    [i \in 1..Len(w) |->
        [local |-> w[i],
         remote |-> RemoteKey(remote_prefix, RelPath(w[i], local_folder))]]

\* rel_path = key[len(remote_prefix):].lstrip("/");
\* local_path = os.path.join(local_folder, rel_path)
DownloadTarget(key, remote_prefix, local_folder) ==
    PathJoin(local_folder, LStrip(SliceFrom(key, Len(remote_prefix))))

DownloadManifest(ks, remote_prefix, local_folder) ==
    [i \in 1..Len(ks) |->
        [local |-> DownloadTarget(ks[i], remote_prefix, local_folder),
         remote |-> ks[i]]]

\* variant: if parallel
UsesPoolForOne(parallel, n) == parallel /\ n > 0

\* if parallel and total > 1
UsesPool(parallel, n) == parallel /\ n > 1

\* no folder call is running
ResetRun ==
    /\ manifest' = <<>>
    /\ total' = 0
    /\ seq_i' = 0
    /\ futures' = <<>>
    /\ stream' = <<>>
    /\ consumed' = 0
    /\ completed' = 0
    /\ progress' = <<>>
    /\ attempts' = <<>>
    /\ pending_err' = NoResult
    /\ observed' = NoObserved

\* total = len(items); with a pool every item is submitted at once
BeginRun(items, parallel) ==
    /\ manifest' = items
    /\ total' = Len(items)
    /\ seq_i' = 0
    /\ futures' = IF UsesPool(parallel, Len(items))
                  THEN [i \in 1..Len(items) |-> "queued"] ELSE <<>>
    /\ stream' = <<>>
    /\ consumed' = 0
    /\ completed' = 0
    /\ progress' = <<>>
    /\ attempts' = <<>>
    /\ pending_err' = NoResult
    /\ observed' = NoObserved
    /\ pc' = IF UsesPool(parallel, Len(items)) THEN "submitted" ELSE "seq"

\* upload_folder(local_folder, remote_prefix, parallel, progress_callback)
\* up to the first transfer
StartUploadFolder(folders, prefixes) ==
    /\ Begin
    /\ \E lf \in folders, p \in prefixes, par \in BOOLEAN :
         /\ op' = [Call("upload_folder", bucket) EXCEPT
                       !.local_folder = lf, !.remote_prefix = p, !.parallel = par]
         /\ IF ~IsDir(dirs, lf)
            THEN /\ Finish(Raised("upload_folder", "NotADirectoryError",
                                  "Not a directory", lf))
                 /\ ResetRun
            ELSE \E w \in WalkOrders(files, lf) :
                   IF w = <<>>
                   THEN Finish(Returned("upload_folder", "None")) /\ ResetRun
                   ELSE BeginRun(UploadManifest(w, lf, p), par) /\ last' = NoResult
    /\ requests' = 0
    /\ UNCHANGED <<envVars, localVars, written, listVars, deleteVars, max_workers>>

\* download_folder(remote_prefix, local_folder, parallel, progress_callback):
\* keys = self.list(remote_prefix)
StartDownloadFolder(prefixes, folders) ==
    /\ Begin
    /\ \E lf \in folders, p \in prefixes, par \in BOOLEAN :
         op' = [Call("download_folder", bucket) EXCEPT
                   !.local_folder = lf, !.remote_prefix = p, !.parallel = par]
    /\ last' = NoResult
    /\ BeginListing
    /\ ResetRun
    /\ requests' = 0
    /\ UNCHANGED <<envVars, localVars, written, deleteVars, max_workers>>

\* if not keys: os.makedirs(local_folder, exist_ok=True); return
\* otherwise total = len(keys) and the transfers start
DownloadAfterList ==
    /\ pc = "listed"
    /\ op.name = "download_folder"
    /\ IF keys = <<>>
       THEN /\ IF CanMakeDirs(files, op.local_folder)
               THEN /\ dirs' = MakeDirs(dirs, op.local_folder)
                    /\ Finish(Returned("download_folder", "None"))
               ELSE /\ Finish(Raised("download_folder", "FileExistsError", "",
                                     op.local_folder))
                    /\ UNCHANGED dirs
            /\ UNCHANGED runVars
       ELSE /\ BeginRun(DownloadManifest(keys, op.remote_prefix, op.local_folder),
                        op.parallel)
            /\ UNCHANGED <<dirs, last>>
    /\ UNCHANGED <<envVars, requests, files, op, calls_left, conn, written, prev,
                   listVars, deleteVars, max_workers>>

----------------------------------------------------------------------------
(* The sequential loop.                                                    *)

\* variant: a failed item is passed over unless it is the last
AfterItemPassing(e, i, n) ==
    IF i < n THEN "next" ELSE IF e # "ok" THEN "raise" ELSE "return"

\* what the loop does after item i of n ended with e: an exception leaves
\* the loop and the call; otherwise the next item, or the return
AfterItem(e, i, n) ==
    IF e # "ok" THEN "raise" ELSE IF i = n THEN "return" ELSE "next"

\* variant: progress_callback(i, total) is called before the transfer
SeqStepReportFirst(fault) ==
    /\ pc = "seq"
    /\ LET i == seq_i + 1
           r == Transfer(op, manifest[i], bucket, files, dirs, fault)
           a == AfterItem(r.err, i, total)
       IN  /\ fault => r.net
           /\ attempts' = Append(attempts, i)
           /\ bucket' = r.bucket
           /\ files' = r.files
           /\ dirs' = r.dirs
           /\ requests' = requests + IF r.net THEN 1 ELSE 0
           /\ seq_i' = i
           /\ progress' = Append(progress, <<i, total>>)
           /\ IF a = "raise"
              THEN Finish([Raised(op.name, r.err, r.msg, ItemPath(op, manifest[i]))
                              EXCEPT !.cause = r.cause])
              ELSE IF a = "return"
              THEN Finish(Returned(op.name, "None"))
              ELSE pc' = "seq" /\ UNCHANGED last
    /\ UNCHANGED <<over, op, calls_left, conn, written, prev, listVars, deleteVars, max_workers,
                   manifest, total, futures, stream, consumed, completed,
                   pending_err, observed>>

\* for i, item in enumerate(items, 1): transfer; progress_callback(i, total)
SeqStep(fault) ==
    /\ pc = "seq"
    /\ LET i == seq_i + 1
           r == Transfer(op, manifest[i], bucket, files, dirs, fault)
           a == AfterItem(r.err, i, total)
       IN  /\ fault => r.net
           /\ attempts' = Append(attempts, i)
           /\ bucket' = r.bucket
           /\ files' = r.files
           /\ dirs' = r.dirs
           /\ requests' = requests + IF r.net THEN 1 ELSE 0
           /\ seq_i' = i
           /\ progress' = IF r.err = "ok" THEN Append(progress, <<i, total>>)
                          ELSE progress
           /\ IF a = "raise"
              THEN Finish([Raised(op.name, r.err, r.msg, ItemPath(op, manifest[i]))
                              EXCEPT !.cause = r.cause])
              ELSE IF a = "return"
              THEN Finish(Returned(op.name, "None"))
              ELSE pc' = "seq" /\ UNCHANGED last
    /\ UNCHANGED <<over, op, calls_left, conn, written, prev, listVars, deleteVars, max_workers,
                   manifest, total, futures, stream, consumed, completed,
                   pending_err, observed>>

SeqTransfer == SeqStep(FALSE) /\ UNCHANGED faults

SeqTransferFault == SeqStep(TRUE) /\ Fault

----------------------------------------------------------------------------
(* The worker pool: ThreadPoolExecutor(max_workers), as_completed, and the *)
(* join on leaving the with block.                                         *)

Unfinished == {"queued", "running"}

Running == {k \in 1..Len(futures) : futures[k] = "running"}

Finished == {k \in 1..Len(futures) : futures[k] \notin Unfinished}

InPool == pc \in {"submitted", "pool", "join"}

\* variant: every queued item gets a worker of its own
WorkerStartUnbounded ==
    /\ InPool
    /\ \E k \in 1..Len(futures) :
         /\ futures[k] = "queued"
         /\ \A j \in 1..(k - 1) : futures[j] # "queued"
         /\ futures' = [futures EXCEPT ![k] = "running"]
         /\ attempts' = Append(attempts, k)
    /\ UNCHANGED <<envVars, requests, localVars, callVars, listVars, deleteVars,
                   max_workers, manifest, total, seq_i, stream, consumed, completed,
                   progress, pending_err, observed>>

\* a worker takes the oldest queued item; at most max_workers items run
WorkerStart ==
    /\ InPool
    /\ Cardinality(Running) < max_workers
    /\ \E k \in 1..Len(futures) :
         /\ futures[k] = "queued"
         /\ \A j \in 1..(k - 1) : futures[j] # "queued"
         /\ futures' = [futures EXCEPT ![k] = "running"]
         /\ attempts' = Append(attempts, k)
    /\ UNCHANGED <<envVars, requests, localVars, callVars, listVars, deleteVars,
                   max_workers, manifest, total, seq_i, stream, consumed, completed,
                   progress, pending_err, observed>>

\* variant: the worker counts its own success and calls the callback
WorkerStepReports(fault) ==
    /\ InPool
    /\ \E k \in Running :
         LET r == Transfer(op, manifest[k], bucket, files, dirs, fault)
         IN  /\ fault => r.net
             /\ bucket' = r.bucket
             /\ files' = r.files
             /\ dirs' = r.dirs
             /\ requests' = requests + IF r.net THEN 1 ELSE 0
             /\ futures' = [futures EXCEPT ![k] = r.err]
             /\ stream' = IF pc = "pool" THEN Append(stream, k) ELSE stream
             /\ completed' = IF r.err = "ok" THEN completed + 1 ELSE completed
             /\ progress' = IF r.err = "ok"
                            THEN Append(progress, <<completed + 1, total>>)
                            ELSE progress
    /\ UNCHANGED <<over, callVars, listVars, deleteVars, max_workers, manifest,
                   total, seq_i, consumed, attempts, pending_err, observed>>

\* a worker's transfer ends and sets its future; as_completed, once
\* started, yields futures in the order they finish
WorkerStep(fault) ==
    /\ InPool
    /\ \E k \in Running :
         LET r == Transfer(op, manifest[k], bucket, files, dirs, fault)
         IN  /\ fault => r.net
             /\ bucket' = r.bucket
             /\ files' = r.files
             /\ dirs' = r.dirs
             /\ requests' = requests + IF r.net THEN 1 ELSE 0
             /\ futures' = [futures EXCEPT ![k] = r.err]
             /\ stream' = IF pc = "pool" THEN Append(stream, k) ELSE stream
    /\ UNCHANGED <<over, callVars, listVars, deleteVars, max_workers, manifest,
                   total, seq_i, consumed, completed, progress, attempts,
                   pending_err, observed>>

WorkerFinish == WorkerStep(FALSE) /\ UNCHANGED faults

WorkerFinishFault == WorkerStep(TRUE) /\ Fault

\* the orders of the elements of S
Orders(S) ==
    {w \in [1..Cardinality(S) -> S] : \A i, j \in 1..Cardinality(S) : w[i] = w[j] => i = j}

\* for future in as_completed(futures): the futures already finished are
\* yielded first, in any order
AsCompleted ==
    /\ pc = "submitted"
    /\ \E w \in Orders(Finished) : stream' = w
    /\ pc' = "pool"
    /\ UNCHANGED <<envVars, requests, localVars, op, calls_left, conn, written, last,
                   prev, listVars, deleteVars, max_workers, manifest, total, seq_i, futures,
                   consumed, completed, progress, attempts, pending_err,
                   observed>>

\* variant: the callback is given the count so far as the total
ReportRunningTotal(c, n) == <<c + 1, c + 1>>

\* variant: the callback is given the counter before the increment
ReportStale(c, n) == <<c, n>>

\* completed += 1; progress_callback(completed, total): the arguments of
\* the callback, from the counter before this completion
Report(c, n) == <<c + 1, n>>

\* the message of the exception a folder call wraps a failed item in
FolderMsg(o) ==
    IF o.name = "upload_folder" THEN "Failed to upload" ELSE "Failed to download"

\* variant: the wrapped error reaches the caller from inside the loop,
\* without the join
ConsumeRaisesAtOnce ==
    /\ pc = "pool"
    /\ consumed < Len(stream)
    /\ LET k == stream[consumed + 1]
       IN  /\ consumed' = consumed + 1
           /\ IF futures[k] = "ok"
              THEN /\ completed' = completed + 1
                   /\ progress' = Append(progress, Report(completed, total))
                   /\ UNCHANGED <<pending_err, observed>>
                   /\ IF consumed + 1 = total
                      THEN Finish(Returned(op.name, "None"))
                      ELSE pc' = "pool" /\ UNCHANGED last
              ELSE /\ pending_err' = Wrapped(op.name, FolderMsg(op),
                                             ItemPath(op, manifest[k]), futures[k])
                   /\ observed' = [futures |-> futures, progress |-> progress]
                   /\ Finish(pending_err')
                   /\ UNCHANGED <<completed, progress>>
    /\ UNCHANGED <<envVars, requests, localVars, op, calls_left, conn, written, prev,
                   listVars, deleteVars, max_workers, manifest, total, seq_i, futures,
                   stream, attempts>>

\* variant: the loop keeps the first exception and goes on to the last
\* future before it raises
ConsumeOn ==
    /\ pc = "pool"
    /\ consumed < Len(stream)
    /\ LET k == stream[consumed + 1]
       IN  /\ consumed' = consumed + 1
           /\ IF futures[k] = "ok"
              THEN /\ completed' = completed + 1
                   /\ progress' = Append(progress, Report(completed, total))
                   /\ UNCHANGED <<pending_err, observed>>
              ELSE /\ pending_err' =
                        IF observed = NoObserved
                        THEN Wrapped(op.name, FolderMsg(op),
                                     ItemPath(op, manifest[k]), futures[k])
                        ELSE pending_err
                   /\ observed' =
                        IF observed = NoObserved
                        THEN [futures |-> futures, progress |-> progress]
                        ELSE observed
                   /\ UNCHANGED <<completed, progress>>
           /\ IF consumed + 1 < total
              THEN pc' = "pool" /\ UNCHANGED last
              ELSE IF pending_err' = NoResult
              THEN Finish(Returned(op.name, "None"))
              ELSE pc' = "join" /\ UNCHANGED last
    /\ UNCHANGED <<envVars, requests, localVars, op, calls_left, conn, written, prev,
                   listVars, deleteVars, max_workers, manifest, total, seq_i, futures,
                   stream, attempts>>

\* one iteration of the loop over as_completed:
\*   future.result(); completed += 1; progress_callback(completed, total)
\*   except Exception as e: raise IOError(f"Failed to ... {path}: {e}")
\* After the last future the with block is left with every item finished.
Consume ==
    /\ pc = "pool"
    /\ consumed < Len(stream)
    /\ LET k == stream[consumed + 1]
       IN  /\ consumed' = consumed + 1
           /\ IF futures[k] = "ok"
              THEN /\ completed' = completed + 1
                   /\ progress' = Append(progress, Report(completed, total))
                   /\ UNCHANGED <<pending_err, observed>>
                   /\ IF consumed + 1 = total
                      THEN Finish(Returned(op.name, "None"))
                      ELSE pc' = "pool" /\ UNCHANGED last
              ELSE /\ pending_err' = Wrapped(op.name, FolderMsg(op),
                                             ItemPath(op, manifest[k]), futures[k])
                   /\ observed' = [futures |-> futures, progress |-> progress]
                   /\ pc' = "join"
                   /\ UNCHANGED <<completed, progress, last>>
    /\ UNCHANGED <<envVars, requests, localVars, op, calls_left, conn, written, prev,
                   listVars, deleteVars, max_workers, manifest, total, seq_i, futures,
                   stream, attempts>>

\* variant: the exception leaves the with block without waiting
JoinNoWait ==
    /\ pc = "join"
    /\ Finish(pending_err)
    /\ UNCHANGED <<envVars, requests, localVars, op, calls_left, conn, written, prev, listVars, deleteVars,
                   folderVars>>

\* the exception leaves the with block: executor.shutdown(wait=True)
\* returns when every submitted item has finished, then the call raises
Join ==
    /\ pc = "join"
    /\ Finished = 1..Len(futures)
    /\ Finish(pending_err)
    /\ UNCHANGED <<envVars, requests, localVars, op, calls_left, conn, written, prev, listVars, deleteVars,
                   folderVars>>

----------------------------------------------------------------------------
(* The local filesystem changes under a running upload_folder.             *)

\* the items of the manifest whose local file is gone
Vanished == {k \in 1..Len(manifest) : manifest[k].local \notin DOMAIN files}

\* another process removes a file the walk has found and no transfer has
\* started on
FileVanishes ==
    /\ op.name = "upload_folder"
    /\ pc \in {"seq", "submitted", "pool", "join"}
    /\ Cardinality(Vanished) < MaxVanish
    /\ \E k \in 1..Len(manifest) :
         /\ manifest[k].local \in DOMAIN files
         /\ \A j \in 1..Len(attempts) : attempts[j] # k
         /\ files' = [q \in DOMAIN files \ {manifest[k].local} |-> files[q]]
    /\ UNCHANGED <<envVars, requests, dirs, callVars, listVars, deleteVars,
                   folderVars>>

----------------------------------------------------------------------------
(* Specification Spec: one upload_folder or download_folder call on a      *)
(* small tree or bucket.                                                   *)

\* "t" and "u": the local folders; "t/a": a path below "t"
FolderT == <<116>>
FolderU == <<117>>
PathTA == <<116, OsSep, 97>>

\* "t/b", and the keys "k" and "m"
PathTB == <<116, OsSep, 98>>
KeyK == <<107>>
KeyM == <<109>>

\* the relative paths a tree may hold: "a", "b", "d/a", "d/b"
TreeFiles == <<(<<97>>), (<<98>>), (<<100, OsSep, 97>>), (<<100, OsSep, 98>>)>>

\* the trees below "t": the file TreeFiles[i] has content i
Tree(S) == [q \in {PathJoin(FolderT, TreeFiles[i]) : i \in S} |->
               CHOOSE i \in S : PathJoin(FolderT, TreeFiles[i]) = q]

\* the prefixes "", "p", "p/" and "p//"
FolderPrefixes == {<<>>, <<112>>, <<112, Slash>>, <<112, Slash, Slash>>}

\* the prefixes of an upload: those, and "/"
UploadPrefixes == FolderPrefixes \cup {<<Slash>>}

\* the buckets a behaviour starts from: empty, with the keys "p/a", "pb"
\* and "q", or with the keys "p", "p//a" and "p/a"
InitBuckets ==
    {<<>>,
     <<[key |-> <<112, Slash, 97>>, body |-> 7],
       [key |-> <<112, 98>>, body |-> 8],
       [key |-> <<113>>, body |-> 9]>>,
     <<[key |-> <<112>>, body |-> 4],
       [key |-> <<112, Slash, Slash, 97>>, body |-> 5],
       [key |-> <<112, Slash, 97>>, body |-> 6]>>}

Init ==
    /\ bucket \in InitBuckets
    /\ over = 0
    /\ faults = 0
    /\ \E S \in SUBSET (1..MaxFiles) :
         /\ files = Tree(S)
         /\ dirs = {FolderT} \cup UNION {DirChain(DirName(q)) : q \in DOMAIN Tree(S)}
    /\ max_workers \in {2, DefaultMaxWorkers}
    /\ calls_left = 1
    /\ conn = Connected
    /\ IdleCall

Next ==
    \/ CallUpload({PathTA, PathTB}, {KeyK})
    \/ StartUploadFolder({FolderT, PathTA}, UploadPrefixes)
    \/ FileVanishes
    \/ StartDownloadFolder(FolderPrefixes, {FolderU})
    \/ ListPage
    \/ ListFail
    \/ DownloadAfterList
    \/ SeqTransfer
    \/ SeqTransferFault
    \/ WorkerStart
    \/ WorkerFinish
    \/ WorkerFinishFault
    \/ AsCompleted
    \/ Consume
    \/ Join

Spec == Init /\ [][Next]_vars

----------------------------------------------------------------------------
(* Specification SpecList: list, exists and delete_folder on stores of up  *)
(* to 2 * ListPageCap + MaxExtra keys.                                     *)

\* "p", "q", and the keys "p/" + chr(i)
PrefixP == <<112>>
KeyQ == <<113>>
KeyZ == <<122>>
KeyP(i) == <<112, Slash, i>>

StoreSizes == (0..MaxSmall) \cup
              {ListPageCap, ListPageCap + 1, 2 * ListPageCap + MaxExtra}

\* n keys under "p/" and the key "q"
Store(n) == [i \in 1..n |-> [key |-> KeyP(i), body |-> 0]]
                \o <<[key |-> KeyQ, body |-> 0]>>

MaxKeysChoices == {<<>>} \cup
    {<<k>> : k \in {0, 1, 2, ListPageCap + 1, 2 * ListPageCap}}

\* the keys exists() is called with: the first key under "p/", the first
\* of the second page, "q", and one that is never written
Probes == {KeyP(1), KeyP(ListPageCap + 1), KeyQ, KeyZ}

InitList ==
    /\ \E n \in StoreSizes : bucket = Store(n)
    /\ over = 0
    /\ faults = 0
    /\ files = <<>>
    /\ dirs = {}
    /\ max_workers = DefaultMaxWorkers
    /\ calls_left = MaxCalls
    /\ conn = Connected
    /\ IdleCall

NextList ==
    \/ StartList({PrefixP, KeyQ}, MaxKeysChoices)
    \/ ListPage
    \/ ListBreakOut
    \/ ListFail
    \/ ListReturn
    \/ CallExists(Probes)
    \/ StartDeleteFolder({PrefixP, KeyQ})
    \/ DeleteAfterList
    \/ DeleteChunk
    \/ DeleteChunkFail

SpecList == InitList /\ [][NextList]_vars

----------------------------------------------------------------------------
(* Specification SpecOver: list against a provider that delivers up to   *)
(* MaxOver keys more than the MaxKeys it was asked for.                    *)

InitOver ==
    /\ \E n \in StoreSizes : bucket = Store(n)
    /\ over \in 1..MaxOver
    /\ faults = 0
    /\ files = <<>>
    /\ dirs = {}
    /\ max_workers = DefaultMaxWorkers
    /\ calls_left = MaxCalls
    /\ conn = Connected
    /\ IdleCall

NextOver ==
    \/ StartList({PrefixP, KeyQ}, MaxKeysChoices)
    \/ ListPage
    \/ ListBreakOut
    \/ ListFail
    \/ ListReturn

SpecOver == InitOver /\ [][NextOver]_vars

----------------------------------------------------------------------------
(* Properties of list, exists and delete_folder.                           *)

\* the keys of ks under prefix, in order
Matching(ks, prefix) == SelectSeq(ks, LAMBDA k : StartsWith(k, prefix))

Elems(sq) == {sq[i] : i \in 1..Len(sq)}

NoDuplicates(sq) == \A i, j \in 1..Len(sq) : sq[i] = sq[j] => i = j

ReturnedFrom(name) == pc = "idle" /\ last.name = name /\ last.status = "ok"

RaisedFrom(name) == pc = "idle" /\ last.name = name /\ last.status = "raised"

\* the keys that were under the call's prefix when the call was issued
Existing == Matching(op.pre, op.remote_prefix)

\* C2: when N objects exist under prefix P, list(P, max_keys=None) returns
\* exactly those N keys, each exactly once, whatever the sizes of the pages
\* the provider delivers.
C2_ListingComplete ==
    (ReturnedFrom("list") /\ op.max_keys = <<>>) =>
        /\ Len(last.value) = Len(Existing)
        /\ Elems(last.value) = Elems(Existing)

\* C2 happens: an uncapped listing of more than 2 * ListPageCap keys has
\* returned after at least three pages, one of them shorter than the cap.
C2_Witness ==
    /\ ReturnedFrom("list")
    /\ op.max_keys = <<>>
    /\ Len(Existing) > 2 * ListPageCap
    /\ pages > 3

\* C3: when N objects exist under prefix P and 0 < k < N, list(P, max_keys=k)
\* returns exactly k keys, also when k exceeds the per-call cap of 1000.
C3_CappedListing ==
    (/\ ReturnedFrom("list")
     /\ op.max_keys # <<>>
     /\ 0 < op.max_keys[1]
     /\ op.max_keys[1] < Len(Existing)) =>
        Len(last.value) = op.max_keys[1]

\* C3 happens: a listing capped above ListPageCap has returned from a store
\* holding more keys than the cap, after several pages.
C3_Witness ==
    /\ ReturnedFrom("list")
    /\ op.max_keys # <<>>
    /\ op.max_keys[1] > ListPageCap
    /\ op.max_keys[1] < Len(Existing)
    /\ pages > 1

\* C4: if a provider page returns more keys than the page size requested,
\* the list returned by list(prefix, max_keys) still has exactly max_keys
\* keys, never more.
C4_TruncatedToMaxKeys ==
    (/\ ReturnedFrom("list")
     /\ op.max_keys # <<>>
     /\ 0 < op.max_keys[1]
     /\ op.max_keys[1] <= Len(Existing)) =>
        Len(last.value) = op.max_keys[1]

\* C5: delete_folder(P) on a prefix holding K keys returns K, and afterwards
\* exists(key) is false for every one of those K keys: both in the state
\* the call returns in and as the result of an exists call issued next.
C5_DeleteFolderDeletesAll ==
    /\ ReturnedFrom("delete_folder") =>
          /\ last.value = Len(Existing)
          /\ \A k \in Elems(Existing) : ~Exists(bucket, k)
    /\ (/\ ReturnedFrom("exists")
        /\ prev.name = "delete_folder"
        /\ StartsWith(op.remote_path, prev.remote_prefix)) =>
          last.value = FALSE

\* C5 happens: exists has been called on a key of the second chunk right
\* after a delete_folder that returned more than DeleteBatchCap.
C5_Witness ==
    /\ ReturnedFrom("exists")
    /\ prev.name = "delete_folder"
    /\ prev.value > DeleteBatchCap
    /\ op.remote_path = KeyP(DeleteBatchCap + 1)
    /\ StartsWith(op.remote_path, prev.remote_prefix)

\* C6: delete_folder on a prefix with no keys returns 0 and issues no
\* bulk-delete call; so does a delete_folder(P) issued right after a
\* delete_folder(P) that returned.
C6_EmptyDeleteFolder ==
    /\ (op.name = "delete_folder" /\ Existing = <<>>) =>
          /\ batches = <<>>
          /\ ReturnedFrom("delete_folder") => last.value = 0
    /\ (/\ op.name = "delete_folder"
        /\ prev.name = "delete_folder"
        /\ prev.remote_prefix = op.remote_prefix) =>
          /\ batches = <<>>
          /\ ReturnedFrom("delete_folder") => last.value = 0

\* C6 happens: a second delete_folder of the same prefix has returned after
\* a first one that deleted keys.
C6_Witness ==
    /\ ReturnedFrom("delete_folder")
    /\ prev.name = "delete_folder"
    /\ prev.remote_prefix = op.remote_prefix
    /\ prev.value > 0

\* ceil(a / b)
CeilDiv(a, b) == (a + b - 1) \div b

\* C8: delete_folder over K > 0 listed keys issues exactly ceil(K/1000)
\* bulk-delete calls; the chunks are consecutive slices of the listing in
\* list order, every chunk but the last has 1000 keys, every listed key is
\* in exactly one chunk, and the returned count is K.
C8_ChunkedDeletion ==
    (ReturnedFrom("delete_folder") /\ keys # <<>>) =>
        LET K == Len(keys)
            n == Len(batches)
        IN  /\ n = CeilDiv(K, DeleteBatchCap)
            /\ \A j \in 1..n :
                   batches[j].keys =
                       SubSeq(keys, (j - 1) * DeleteBatchCap + 1,
                              Min(j * DeleteBatchCap, K))
            /\ \A j \in 1..(n - 1) : Len(batches[j].keys) = DeleteBatchCap
            /\ \A i \in 1..K :
                   Cardinality({j \in 1..n : keys[i] \in Elems(batches[j].keys)}) = 1
            /\ last.value = K

\* C8 happens: delete_folder has returned after three bulk-delete calls,
\* two of DeleteBatchCap keys and a shorter last one.
C8_Witness ==
    /\ ReturnedFrom("delete_folder")
    /\ Len(batches) = 3
    /\ Len(batches[1].keys) = DeleteBatchCap
    /\ Len(batches[2].keys) = DeleteBatchCap
    /\ Len(batches[3].keys) = MaxExtra


----------------------------------------------------------------------------
(* Specification SpecRoundTrip: two calls in a row on a bucket that starts *)
(* empty, with a provider that never fails.                                *)

InitRoundTrip ==
    /\ bucket = <<>>
    /\ over = 0
    /\ faults = MaxFaults
    /\ \E S \in SUBSET (1..MaxFiles) :
         /\ files = Tree(S)
         /\ dirs = {FolderT} \cup UNION {DirChain(DirName(q)) : q \in DOMAIN Tree(S)}
    /\ max_workers \in {2, DefaultMaxWorkers}
    /\ calls_left = 2
    /\ conn = Connected
    /\ IdleCall

NextRoundTrip ==
    \/ StartUploadFolder({FolderT}, FolderPrefixes)
    \/ StartDownloadFolder(FolderPrefixes, {FolderU})
    \/ ListPage
    \/ DownloadAfterList
    \/ SeqTransfer
    \/ WorkerStart
    \/ WorkerFinish
    \/ AsCompleted
    \/ Consume

SpecRoundTrip == InitRoundTrip /\ [][NextRoundTrip]_vars

----------------------------------------------------------------------------
(* Properties of upload_folder and download_folder.                        *)

\* the tree below directory d: the content of each file, by its path
\* relative to d
TreeAt(fs, d) ==
    [r \in {RelPath(q, d) : q \in FilesUnder(fs, d)} |-> fs[PathJoin(d, r)]]

FolderCalls == {"upload_folder", "download_folder"}

\* a download_folder(P, T2) has returned that was issued right after an
\* upload_folder(T, P) which returned and had found the bucket empty
RoundTripDone ==
    /\ ReturnedFrom("download_folder")
    /\ prev.name = "upload_folder"
    /\ prev.fresh
    /\ prev.remote_prefix = op.remote_prefix

\* C1: for every tree T and prefix P, upload_folder(T, P) followed by
\* download_folder(P, T2) on a store that held no other keys leaves T2 with
\* the relative paths and contents of T, with parallel True and False.
C1_RoundTrip ==
    RoundTripDone => TreeAt(files, op.local_folder) = TreeAt(files, prev.local_folder)

\* C1, for the prefixes that end in at most one "/": the round trip holds.
C1_RoundTripOneSlash ==
    (/\ RoundTripDone
     /\ \/ RStrip(op.remote_prefix) = op.remote_prefix
        \/ RStrip(op.remote_prefix) \o <<Slash>> = op.remote_prefix) =>
        TreeAt(files, op.local_folder) = TreeAt(files, prev.local_folder)

\* C7: a parallel folder transfer of n >= 2 items that all succeed invokes
\* the progress callback exactly n times, with completed = 1, 2, ..., n in
\* this order whatever the order the workers finish in, and (n, n) last.
C7_ParallelProgress ==
    \A name \in FolderCalls :
        (ReturnedFrom(name) /\ UsesPool(op.parallel, total)) =>
            progress = [i \in 1..total |-> <<i, total>>]

\* C7 happens: a parallel transfer of three items has returned whose items
\* finished in another order than they were submitted in.
C7_Witness ==
    /\ \E name \in FolderCalls : ReturnedFrom(name)
    /\ UsesPool(op.parallel, total)
    /\ total = 3
    /\ stream # <<1, 2, 3>>
    /\ Len(progress) = 3

\* a download_folder call is over whose listing succeeded and was empty
EmptyListingDone ==
    /\ pc = "idle"
    /\ op.name = "download_folder"
    /\ last.name = "download_folder"
    /\ last.msg # "Failed to list objects"
    /\ keys = <<>>

\* C9: download_folder on a prefix whose listing is empty creates the
\* destination directory, performs no download, invokes no progress
\* callback, and returns without error.
C9_EmptyFolderDownload ==
    EmptyListingDone =>
        /\ last.status = "ok"
        /\ IsDir(dirs, op.local_folder)
        /\ attempts = <<>>
        /\ progress = <<>>
        /\ FilesUnder(files, op.local_folder) = {}

\* C9 happens: download_folder has returned for a prefix with no key under
\* it, in a bucket that holds other keys.
C9_Witness ==
    /\ EmptyListingDone
    /\ ReturnedFrom("download_folder")
    /\ op.pre # <<>>
    /\ Existing = <<>>

\* what item it of the manifest writes: the key of an upload, the local
\* file of a download
Target(it) == IF op.name = "upload_folder" THEN it.remote ELSE it.local

\* item j of the first n items of the manifest has had its effect: the
\* object, or the local file, is there with the content of its source, or
\* of the source of the last of these items that wrote it after j
Transferred(j, n) ==
    LET same == {k \in j..n : Target(manifest[k]) = Target(manifest[j])}
        it   == manifest[CHOOSE k \in same : \A m \in same : m <= k]
    IN  /\ it.local \in DOMAIN files
        /\ HasKey(bucket, it.remote)
        /\ BodyOf(bucket, it.remote) = files[it.local]

\* C10: with parallel=False the items are executed in manifest order; if
\* item i is the first to fail, the call surfaces that failure, no item
\* after i is attempted, and the effects of the items before i remain.
C10_SequentialStopsAtFirstFailure ==
    \A name \in FolderCalls :
        (op.name = name /\ ~UsesPool(op.parallel, total)) =>
            /\ attempts = [j \in 1..Len(attempts) |-> j]
            /\ (RaisedFrom(name) /\ attempts # <<>>) =>
                  LET i == Len(attempts)
                  IN  /\ last.path = ItemPath(op, manifest[i])
                      /\ last.msg # "Failed to list objects"
                      /\ \A j \in 1..(i - 1) : Transferred(j, i - 1)
                      /\ progress = [j \in 1..(i - 1) |-> <<j, total>>]
            /\ ReturnedFrom(name) =>
                  /\ Len(attempts) = total
                  /\ \A j \in 1..total : Transferred(j, total)

\* C10 happens: a sequential transfer of three items has raised at the
\* second one.
C10_Witness ==
    /\ \E name \in FolderCalls : RaisedFrom(name)
    /\ ~op.parallel
    /\ total = 3
    /\ Len(attempts) = 2
    /\ Transferred(1, 1)

----------------------------------------------------------------------------
(* Properties of the worker pool.                                          *)

\* the items whose transfer raised
FailedItems == {k \in 1..Len(futures) : futures[k] \notin Unfinished \cup {"ok"}}

\* a folder call that used the pool is over
PoolCallOver(name) ==
    /\ pc = "idle"
    /\ op.name = name
    /\ last.name = name
    /\ UsesPool(op.parallel, total)

\* C11: if at least one item of a parallel folder transfer fails, the call
\* fails with a wrapped error that names the path of an item that failed
\* (local path for upload, key for download): the first failed item of the
\* completion stream.
C11_ParallelFailureReported ==
    \A name \in FolderCalls :
        (PoolCallOver(name) /\ FailedItems # {}) =>
            /\ last.status = "raised"
            /\ last.err = "IOError"
            /\ last.cause # "none"
            /\ consumed > 0
            /\ LET k == stream[consumed]
               IN  /\ k \in FailedItems
                   /\ last.cause = futures[k]
                   /\ last.path = IF name = "upload_folder" THEN manifest[k].local
                                  ELSE manifest[k].remote
                   /\ \A j \in 1..(consumed - 1) : stream[j] \notin FailedItems

\* C11 happens: a parallel transfer has raised for the failed item it met
\* first, after a successful one, while an item submitted earlier failed too.
C11_Witness ==
    /\ \E name \in FolderCalls : PoolCallOver(name) /\ RaisedFrom(name)
    /\ consumed > 1
    /\ \E k \in FailedItems : k < stream[consumed]

\* C12: after the first failure is observed in parallel mode no submitted
\* item is cancelled: when the call raises, every item of the manifest,
\* running or still queued at that moment, has been executed to completion
\* or failure.
C12_NoCancellation ==
    \A name \in FolderCalls :
        (PoolCallOver(name) /\ RaisedFrom(name)) =>
            /\ Len(futures) = total
            /\ Finished = 1..total
            /\ Elems(attempts) = 1..total
            /\ \A k \in 1..total :
                   observed.futures[k] \in Unfinished => futures[k] \notin Unfinished

\* C12 happens: an item that was still queued when the failure was observed
\* has been transferred by the time the call raised, and so has one that
\* was running.
C12_Witness ==
    /\ \E name \in FolderCalls : PoolCallOver(name) /\ RaisedFrom(name)
    /\ \E k \in 1..total : observed.futures[k] = "queued" /\ futures[k] = "ok"
    /\ \E k \in 1..total : observed.futures[k] = "running" /\ futures[k] = "ok"

----------------------------------------------------------------------------
(* Specification SpecObject: the client is constructed, then single        *)
(* objects are written, uploaded, deleted and probed in a store that       *)
(* starts empty.                                                           *)

InitObject ==
    /\ bucket = <<>>
    /\ over = 0
    /\ faults = 0
    /\ files = Tree({1})
    /\ dirs = {FolderT}
    /\ max_workers = DefaultMaxWorkers
    /\ calls_left = MaxSteps
    /\ conn = NoConn
    /\ IdleCall

NextObject ==
    \/ Construct
    \/ CallExists({KeyK, KeyM})
    \/ CallWriteText({KeyK, KeyM}, {5})
    \/ CallUpload({PathTA, PathTB}, {KeyK})
    \/ CallDelete({KeyK, KeyM})

SpecObject == InitObject /\ [][NextObject]_vars

----------------------------------------------------------------------------
(* Properties of construction and of the single-object calls.              *)

\* C13: an S3Client object is returned only if the head_bucket probe
\* succeeded; whenever boto3.client or the probe fails (credentials, missing
\* bucket, any other error) the constructor raises, no object is returned,
\* and so no call is ever issued on an unprobed connection.
C13_AtomicConstruction ==
    /\ conn.status = "ok" => (conn.made /\ conn.probed)
    /\ (conn.status # "none" /\ ~conn.probed) => conn.status = "raised"
    /\ op.name # "none" => (conn.status = "ok" /\ conn.probed)

\* C13 happens: the constructor has raised after head_bucket failed with a
\* ClientError that is not a 404, and the caller holds no object.
C13_Witness ==
    /\ conn.status = "raised"
    /\ conn.made
    /\ conn.err = "ClientError"
    /\ op.name = "none"

\* exists has returned for the key the call before it wrote or deleted
ProbedAfter(names) ==
    /\ ReturnedFrom("exists")
    /\ prev.name \in names
    /\ prev.remote_path = op.remote_path

\* C14: exists(key) is false before the first write of the key, true
\* immediately after a write_text or upload of the key that returned, and
\* false immediately after a delete of the key that returned.
C14_ExistenceTransitions ==
    /\ (ReturnedFrom("exists") /\ op.remote_path \notin written) =>
           last.value = FALSE
    /\ ProbedAfter({"write_text", "upload"}) => last.value = TRUE
    /\ ProbedAfter({"delete"}) => last.value = FALSE

\* C14, when the delete was called with ignore_missing=False: the
\* transitions hold.
C14_TransitionsStrictDelete ==
    /\ (ReturnedFrom("exists") /\ op.remote_path \notin written) =>
           last.value = FALSE
    /\ ProbedAfter({"write_text", "upload"}) => last.value = TRUE
    /\ (ProbedAfter({"delete"}) /\ ~prev.ignore_missing) => last.value = FALSE

\* C15: exists(key) never raises when the key is absent: it returns False
\* for an absent key and True for a present key, and it raises only when
\* the provider failed with an error other than not-found.
C15_ExistsTotal ==
    (pc = "idle" /\ op.name = "exists") =>
        /\ last.status = "ok" => last.value = HasKey(bucket, op.remote_path)
        /\ last.status = "raised" =>
              /\ faults > 0
              /\ last.err = "IOError"
              /\ last.cause = "ClientError"
        /\ faults = 0 => last.status = "ok"

\* C15 happens: exists has returned False for a key that is absent after a
\* delete, with no provider failure in the behaviour.
C15_Witness ==
    /\ ReturnedFrom("exists")
    /\ last.value = FALSE
    /\ ProbedAfter({"delete"})
    /\ op.remote_path \in written
    /\ faults = 0

----------------------------------------------------------------------------
(* Properties of the error paths.                                          *)

\* the item of a folder upload whose failure ended the call found its
\* local file missing
MissingAtTransfer ==
    /\ RaisedFrom("upload_folder")
    /\ attempts # <<>>
    /\ LET k == IF UsesPool(op.parallel, total) THEN stream[consumed]
                ELSE attempts[Len(attempts)]
       IN  /\ k \in Vanished
           /\ UsesPool(op.parallel, total) => futures[k] = "FileNotFoundError"

LocalNotFound == {"FileNotFoundError", "NotADirectoryError"}

\* C16: upload of a missing local file and upload_folder of a path that is
\* not a directory raise the local-not-found error with no provider call
\* issued; in a folder upload, sequential or parallel, a local file found
\* missing at transfer time surfaces as a local-not-found error.
C16_LocalErrorsSurface ==
    /\ (/\ pc = "idle"
        /\ op.name = "upload"
        /\ ~PathExists(files, dirs, op.local_path)) =>
           /\ RaisedFrom("upload")
           /\ last.err = "FileNotFoundError"
           /\ requests = 0
    /\ (/\ pc = "idle"
        /\ op.name = "upload_folder"
        /\ ~IsDir(dirs, op.local_folder)) =>
           /\ RaisedFrom("upload_folder")
           /\ last.err = "NotADirectoryError"
           /\ requests = 0
    /\ MissingAtTransfer => last.err \in LocalNotFound

\* C16, without the parallel folder upload: the local errors surface as
\* they are raised.
C16_LocalErrorsSurfaceSequential ==
    /\ (/\ pc = "idle"
        /\ op.name = "upload"
        /\ ~PathExists(files, dirs, op.local_path)) =>
           /\ RaisedFrom("upload")
           /\ last.err = "FileNotFoundError"
           /\ requests = 0
    /\ (/\ pc = "idle"
        /\ op.name = "upload_folder"
        /\ ~IsDir(dirs, op.local_folder)) =>
           /\ RaisedFrom("upload_folder")
           /\ last.err = "NotADirectoryError"
           /\ requests = 0
    /\ (MissingAtTransfer /\ ~UsesPool(op.parallel, total)) =>
           (last.err = "FileNotFoundError" /\ last.path = manifest[Len(attempts)].local)

\* the exceptions of the taxonomy: not-found (local or remote), connection
\* failure at construction, transfer or I/O failure
Taxonomy == {"FileNotFoundError", "NotADirectoryError", "ValueError", "IOError"}

\* C17: for every public operation including construction, a failure the
\* provider reports reaches the caller only as an error of the taxonomy,
\* never as the provider's own exception.
C17_RemoteErrorsWrapped ==
    /\ conn.status = "raised" => conn.err \in Taxonomy
    /\ last.status = "raised" => last.err \in Taxonomy

\* C17, for the calls on a constructed client: a ClientError of the
\* provider reaches the caller as IOError or FileNotFoundError.
C17_CallErrorsWrapped ==
    last.status = "raised" => last.err \in Taxonomy

\* the keys under the call's prefix that are in the bucket now
Remaining == Matching(BucketKeys(bucket), op.remote_prefix)

\* C18: if the bulk-delete call for chunk j fails, delete_folder raises, no
\* chunk after j is issued, and the keys of chunks 1..j-1 stay deleted: the
\* keys still present are exactly those of chunks j and later.  A
\* delete_folder that returns has had no failed chunk.
C18_NonAtomicBatchDeletion ==
    /\ (RaisedFrom("delete_folder") /\ batches # <<>>) =>
          LET j    == Len(batches)
              done == (j - 1) * DeleteBatchCap
          IN  /\ last.err = "IOError"
              /\ last.msg = "Failed to delete objects"
              /\ ~batches[j].ok
              /\ \A i \in 1..(j - 1) : batches[i].ok
              /\ batches[j].keys = SubSeq(keys, done + 1, Min(done + DeleteBatchCap, Len(keys)))
              /\ Remaining = SubSeq(keys, done + 1, Len(keys))
              /\ \A i \in 1..done : ~HasKey(bucket, keys[i])
    /\ ReturnedFrom("delete_folder") =>
          \A i \in 1..Len(batches) : batches[i].ok

\* C18 happens: delete_folder has raised at its third chunk after two
\* chunks that were deleted.
C18_Witness ==
    /\ RaisedFrom("delete_folder")
    /\ Len(batches) = 3
    /\ Len(Remaining) = Len(keys) - 2 * DeleteBatchCap

\* C19: in every progress callback invocation of a folder call the total
\* argument is the manifest length computed before the first transfer, and
\* 0 <= completed <= total; the total does not change while the call runs,
\* also when the local tree does.  A manifest of length 0 makes
\* upload_folder return at once, with no worker pool and no callback.
C19_FixedTotal ==
    /\ op.name \in FolderCalls =>
          /\ total = Len(manifest)
          /\ completed \in 0..total
          /\ \A i \in 1..Len(progress) :
                 /\ progress[i][2] = Len(manifest)
                 /\ progress[i][1] \in 0..Len(manifest)
    /\ (/\ pc = "idle"
        /\ op.name = "upload_folder"
        /\ IsDir(dirs, op.local_folder)
        /\ manifest = <<>>) =>
          /\ ReturnedFrom("upload_folder")
          /\ futures = <<>>
          /\ attempts = <<>>
          /\ progress = <<>>
          /\ requests = 0

\* C19 happens: a folder upload of three items goes on reporting a total
\* of three after one of its files has been removed.
C19_Witness ==
    /\ op.name = "upload_folder"
    /\ total = 3
    /\ Vanished # {}
    /\ Len(progress) = 2
    /\ progress[2] = <<2, 3>>

\* the loop over as_completed of the call in progress, or of the call just
\* over, has met a failed item
FailureObserved ==
    /\ op.name \in FolderCalls
    /\ UsesPool(op.parallel, total)
    /\ observed # NoObserved

\* C20: in a parallel folder transfer, once the first failed item has been
\* observed in the completion stream the progress callback is not invoked
\* again, although other items still complete successfully afterwards.
C20_NoProgressAfterFailure ==
    FailureObserved =>
        /\ pc \in {"join", "idle"}
        /\ progress = observed.progress
        /\ completed = Len(observed.progress)
        /\ pc = "idle" => RaisedFrom(op.name)

\* C20 happens: the call has raised after one progress call, and an item
\* that was unfinished when the failure was observed has succeeded since
\* without being reported.
C20_Witness ==
    /\ FailureObserved
    /\ pc = "idle"
    /\ Len(progress) = 1
    /\ \E k \in 1..total : observed.futures[k] \in Unfinished /\ futures[k] = "ok"
    /\ Cardinality({k \in 1..total : futures[k] = "ok"}) = 2

----------------------------------------------------------------------------
(* Properties of delete.                                                   *)

\* delete is the call just over, and delete_object answered it with error e
DeleteAnswered(e) ==
    /\ pc = "idle"
    /\ op.name = "delete"
    /\ last.name = "delete"
    /\ last.cause = e

\* C21: delete with ignore_missing=False surfaces every failure the
\* provider reports for the delete call as an error to the caller, and the
\* only failure that ignore_missing=True forgives is the key being missing.
C21_DeleteSurfacesFailures ==
    \A e \in {MissingKey, OtherError} :
        DeleteAnswered(e) =>
            IF op.ignore_missing /\ e = MissingKey
            THEN last.status = "ok"
            ELSE last.status = "raised" /\ last.err = "IOError"

\* C21, for ignore_missing=False alone: every failure of delete_object
\* reaches the caller as an IOError.
C21_StrictDeleteSurfaces ==
    \A e \in {MissingKey, OtherError} :
        (DeleteAnswered(e) /\ ~op.ignore_missing) =>
            (last.status = "raised" /\ last.err = "IOError")

\* the key of the delete just over is in the store exactly if it was there
\* when the call was issued
PresenceUnchanged ==
    HasKey(bucket, op.remote_path) <=> (op.remote_path \in Elems(op.pre))

----------------------------------------------------------------------------
(* Properties of the manifests.                                            *)

\* the regular files the walk of upload_folder found: those below
\* local_folder now and those removed since
WalkFound ==
    FilesUnder(files, op.local_folder)
        \cup {manifest[k].local : k \in Vanished}

\* the key the file f below local_folder is to get: the prefix without its
\* trailing '/', one '/', and what follows local_folder and one separator in
\* f, with '/' for the separator
ExpectedKey(f) ==
    LET rel == SliceFrom(f, Len(RStripSep(op.local_folder)) + 1)
    IN  RStrip(op.remote_prefix) \o <<Slash>>
            \o [i \in 1..Len(rel) |-> IF rel[i] = OsSep THEN Slash ELSE rel[i]]

\* upload_folder has built a manifest that is not empty
UploadManifestBuilt ==
    /\ op.name = "upload_folder"
    /\ manifest # <<>>

\* every file found has one item, with the expected key, and the keys are
\* distinct
KeysMapped ==
    /\ Len(manifest) = Cardinality(WalkFound)
    /\ \A f \in WalkFound :
         \E i \in 1..Len(manifest) :
            /\ manifest[i].local = f
            /\ manifest[i].remote = ExpectedKey(f)
            /\ \A j \in 1..Len(manifest) : manifest[j].local = f => j = i
    /\ \A i, j \in 1..Len(manifest) :
           manifest[i].remote = manifest[j].remote => i = j

\* C22: for every regular file found by the walk of local_folder the
\* manifest holds exactly one item, whose key is the prefix with its
\* trailing '/' stripped, one '/', and the file's path relative to
\* local_folder with '/' as separator; distinct files get distinct keys and
\* no key starts with '/', also for the empty prefix and the prefix '/'.
C22_UploadKeyMapping ==
    UploadManifestBuilt =>
        /\ KeysMapped
        /\ \A i \in 1..Len(manifest) : manifest[i].remote[1] # Slash

\* C22, without the shape of the keys when nothing is left of the prefix
\* once its trailing '/' are stripped.
C22_UploadKeyMappingNamedPrefix ==
    UploadManifestBuilt =>
        /\ KeysMapped
        /\ RStrip(op.remote_prefix) # <<>> =>
               \A i \in 1..Len(manifest) : manifest[i].remote[1] # Slash

\* download_folder has built a manifest that is not empty
DownloadManifestBuilt ==
    /\ op.name = "download_folder"
    /\ manifest # <<>>

\* the local path p names a file strictly inside the folder d
StrictlyInside(p, d) ==
    /\ StartsWith(p, RStripSep(d) \o <<OsSep>>)
    /\ Len(p) > Len(RStripSep(d)) + 1
    /\ ~EndsWithSep(p)

\* item i of the manifest is the i-th listed key, and its target is
\* local_folder, a separator, and the key without the first len(prefix)
\* characters and the '/' that follow them
TargetsMapped ==
    /\ Len(manifest) = Len(keys)
    /\ \A i \in 1..Len(manifest) :
         /\ manifest[i].remote = keys[i]
         /\ manifest[i].local =
               op.local_folder \o <<OsSep>>
                   \o LStrip(SubSeq(keys[i], Len(op.remote_prefix) + 1,
                                    Len(keys[i])))

\* C23: for every key returned by list(prefix) the local target is
\* local_folder joined with the key minus the leading prefix and any
\* following '/'; distinct keys map to distinct local file paths strictly
\* inside local_folder, also when a listed key equals the prefix or shares
\* it without a '/' boundary.
C23_DownloadPathMapping ==
    DownloadManifestBuilt =>
        /\ TargetsMapped
        /\ \A i, j \in 1..Len(manifest) :
               manifest[i].local = manifest[j].local => i = j
        /\ \A i \in 1..Len(manifest) :
               StrictlyInside(manifest[i].local, op.local_folder)

\* C23, the mapping alone: each target is local_folder joined with the key
\* minus the leading prefix and any following '/'.
C23_DownloadTargets ==
    DownloadManifestBuilt => TargetsMapped

----------------------------------------------------------------------------
(* Properties of the pool's size and lifetime.                             *)

\* C24: during a parallel folder transfer no more than max_workers item
\* transfers execute at once, although all items are submitted up front;
\* and the pool of a call is shut down when the call returns or raises, so
\* that no worker persists across calls.
C24_BoundedPool ==
    /\ Cardinality(Running) <= max_workers
    /\ InPool => (Len(futures) = total /\ total = Len(manifest))
    /\ pc \notin {"submitted", "pool", "join"} =>
           \A k \in 1..Len(futures) : futures[k] \notin Unfinished
    /\ (op.name \in FolderCalls /\ ~UsesPool(op.parallel, total)) =>
           futures = <<>>

\* C24 happens: max_workers = 2 transfers are running while a third item
\* submitted with them is still queued.
C24_Witness ==
    /\ InPool
    /\ max_workers = 2
    /\ Cardinality(Running) = max_workers
    /\ \E k \in 1..Len(futures) : futures[k] = "queued"

----------------------------------------------------------------------------
(* Specification SpecTokenless: list against a provider that may flag a    *)
(* page as truncated without giving a continuation token.                  *)

InitTokenless ==
    /\ \E n \in 0..MaxSmall : bucket = Store(n)
    /\ over = 0
    /\ faults = 0
    /\ files = <<>>
    /\ dirs = {}
    /\ max_workers = DefaultMaxWorkers
    /\ calls_left = 1
    /\ conn = Connected
    /\ IdleCall

NextTokenless ==
    \/ StartList({PrefixP, KeyQ}, MaxKeysChoices)
    \/ ListPage
    \/ ListPageTokenless
    \/ ListBreakOut
    \/ ListReturn

SpecTokenless == InitTokenless /\ [][NextTokenless]_vars

\* the listing loop issues one more provider call
ListCallIssued == pc = "list" /\ pages' = pages + 1

\* C25: the listing loop continues only while it holds a continuation
\* token: it issues no provider call after a page that carried none, also
\* when that page was flagged as truncated, and so it ends after at most
\* one call for each key the provider holds under the prefix.
C25_PaginationStops ==
    [][ListCallIssued =>
          /\ pages > 0 => continuation_token # <<>>
          /\ pages' <= Len(Matching(BucketKeys(bucket), op.remote_prefix)) + 1]_vars

----------------------------------------------------------------------------
(* Properties of the sequential path.                                      *)

\* a folder call with parallel=False has built a manifest that is not empty
SequentialRun ==
    /\ op.name \in FolderCalls
    /\ ~op.parallel
    /\ manifest # <<>>

\* C26: with parallel=False and a manifest of n items the progress
\* callback is invoked with (i, n) right after item i succeeds and before
\* item i+1 starts, for i = 1..n in manifest order; when item i fails,
\* exactly i-1 invocations have happened.
C26_SequentialProgress ==
    SequentialRun =>
        LET i == Len(attempts)
            m == IF pc = "idle" /\ last.status = "raised" THEN i - 1 ELSE i
        IN  /\ total = Len(manifest)
            /\ attempts = [j \in 1..i |-> j]
            /\ progress = [j \in 1..m |-> <<j, total>>]
            /\ pc = "seq" => i < total
            /\ ReturnedFrom(op.name) => i = total

\* C26 happens: a sequential transfer of three items has raised at the
\* third, after the callback was invoked with (1, 3) and (2, 3).
C26_Witness ==
    /\ SequentialRun
    /\ pc = "idle"
    /\ last.status = "raised"
    /\ total = 3
    /\ Len(attempts) = 3
    /\ progress = <<(<<1, 3>>), (<<2, 3>>)>>

----------------------------------------------------------------------------
(* Properties of the progress counter in parallel mode.                    *)

\* a folder call is running its transfers in the pool
PoolRun ==
    /\ op.name \in FolderCalls
    /\ UsesPool(op.parallel, total)
    /\ InPool

\* the futures consumed from the completion stream that had succeeded
ConsumedOk == {i \in 1..consumed : futures[stream[i]] = "ok"}

\* C27: in parallel mode the completed counter is incremented and the
\* progress callback invoked only by the calling thread, when it consumes
\* a future from the completion stream, never by a worker; the invocations
\* follow one another and no increment is lost under any interleaving of
\* the workers.
C27_SingleWriter ==
    [][PoolRun =>
          /\ (completed' # completed \/ progress' # progress) =>
                /\ pc = "pool"
                /\ consumed' = consumed + 1
                /\ futures' = futures
                /\ completed' = completed + 1
                /\ progress' = Append(progress, <<completed + 1, total>>)
          /\ (observed' = NoObserved) => completed' = Cardinality(ConsumedOk')
          /\ Len(progress') = completed']_vars

\* C27 happens: the calling thread has counted two items and called the
\* callback twice while a worker is still running a third.
C27_Witness ==
    /\ PoolRun
    /\ completed = 2
    /\ progress = <<(<<1, total>>), (<<2, total>>)>>
    /\ Running # {}

----------------------------------------------------------------------------
(* Properties of the hand-over of a parallel call's error.                 *)

\* control goes back to the caller of a parallel folder call with an error
ErrorHandedOver ==
    /\ PoolRun
    /\ pc' = "idle"
    /\ last'.status = "raised"

\* C28: the wrapped error of a parallel upload_folder or download_folder
\* reaches the caller only after every submitted item has finished: until
\* the pool is joined the caller holds nothing, and the step that hands the
\* error over finds no item queued or running and changes neither the store
\* nor the local files.
C28_ErrorAfterJoin ==
    [][/\ (PoolRun /\ pc' = "join") => last' = NoResult
       /\ ErrorHandedOver =>
             /\ pc = "join"
             /\ \A k \in 1..total : futures[k] \notin Unfinished
             /\ last' = pending_err
             /\ last'.err = "IOError"
             /\ UNCHANGED <<bucket, files, dirs, futures, attempts>>]_vars

\* C28 happens: the caller holds the error of a parallel call; two items
\* were running when the calling thread caught it, and both have finished.
C28_Witness ==
    /\ op.name \in FolderCalls
    /\ UsesPool(op.parallel, total)
    /\ pc = "idle"
    /\ last = pending_err
    /\ last.status = "raised"
    /\ Cardinality({k \in 1..total : observed.futures[k] = "running"}) = 2
    /\ Running = {}

----------------------------------------------------------------------------
(* Properties of a parallel call with one item.                            *)

\* a folder call with parallel=True has built a manifest of one item
ParallelRunOfOne ==
    /\ op.name \in FolderCalls
    /\ op.parallel
    /\ Len(manifest) = 1

\* the exceptions upload and download raise themselves or let through
ItemErrors ==
    {"IOError", "FileNotFoundError", "IsADirectoryError", "FileExistsError"}

\* C29: with parallel=True and a manifest of exactly one item the folder
\* calls take the sequential path: no pool is created, the item runs in the
\* calling thread, the callback receives (1, 1) on success, and a failure
\* reaches the caller as the item operation's own error, without the
\* folder call's wrapping.
C29_SingleItemSequential ==
    ParallelRunOfOne =>
        /\ total = 1
        /\ futures = <<>> /\ stream = <<>> /\ observed = NoObserved
        /\ pc \in {"seq", "idle"}
        /\ pc = "seq" => (attempts = <<>> /\ progress = <<>>)
        /\ pc = "idle" => attempts = <<1>>
        /\ ReturnedFrom(op.name) => progress = <<(<<1, 1>>)>>
        /\ RaisedFrom(op.name) =>
              /\ progress = <<>>
              /\ last.err \in ItemErrors
              /\ last.cause \notin ItemErrors
              /\ last.err = "IOError" => last.cause = "ClientError"

\* C29 happens: upload_folder with parallel=True found one file, which was
\* gone when its upload started, and the caller got upload's
\* FileNotFoundError.
C29_Witness ==
    /\ ParallelRunOfOne
    /\ RaisedFrom("upload_folder")
    /\ last.err = "FileNotFoundError"
    /\ progress = <<>>

============================================================================
